---- MODULE Spec2Model ----
(***************************************************************************)
(* Health Decoder: the image-analysis pipeline (analyze_image), the pure    *)
(* functions it is built from (compute_quality, clamp_box, derive_rois,    *)
(* risk_from_rois, wellness_score) and the demo page that calls it.        *)
(*                                                                         *)
(* Abstractions.                                                           *)
(*  - An image is its height, its width, the two statistics OpenCV takes   *)
(*    of it in compute_quality (mean brightness, Laplacian variance, as    *)
(*    integers) and, per region, the grayscale pixels a non-empty crop of  *)
(*    that region holds (a short sequence of 8-bit values standing for the *)
(*    crop's pixel population).                                            *)
(*  - Floats are fixed point: a mean or a standard deviation is kept in    *)
(*    hundredths, a clipped term in thousandths, a risk in units of        *)
(*    1/10000 (a risk agrees with the double to within 0.001).  NaN is a   *)
(*    value of its own that every operation propagates.                    *)
(*  - round() is exact on the fixed-point value; where that value is a tie *)
(*    x.5 the double may lie on either side of it, and fp_side says which. *)
(*  - The local cascade reports square windows of at least minSize that    *)
(*    lie in the frame; the remote adapter is the stub the source holds.   *)
(*  - int(0.xx * n) is truncation of the IEEE-754 product, including the   *)
(*    products that fall just below a whole number (FloatShort).           *)
(*  - The demo page is a Streamlit script: every interaction of the user   *)
(*    runs it again from the top, st.session_state is what lasts from one  *)
(*    run to the next, and st.button answers True only in the run that the *)
(*    click on that very button started.  A timestamp is the number of the *)
(*    reading of datetime.now() that produced it.                          *)
(***************************************************************************)
EXTENDS Integers, Sequences, FiniteSets, TLC

VARIABLES
    pc,              \* the state of the call: QUALITY_CHECK .. DONE, FAIL_*, RAISED
    img,             \* the input image img_bgr
    vision_backend,  \* Settings.vision_backend
    quality,         \* Optional QualityResult
    located,         \* Optional outcome of vision.detect_face
    face_box,        \* None or (x1, y1, x2, y2)
    partial_face,
    rois,            \* Optional ROIBoxes
    gray_rois,       \* Optional crops handed to risk_from_rois
    risk,            \* Optional risk components
    score,           \* Optional ScoreResult
    result,          \* Optional AnalysisResult: what the call returned
    exc,             \* the exception the call raised, "" if none
    fp_side,         \* rounding of an exact tie in round(): 0 down, 1 up
    calls,           \* the calls that returned before this one: what each was
                     \* given and what it returned
    session_state,   \* the demo page's st.session_state
    page,            \* what the last run of the demo page's script did and showed
    clock            \* the readings of datetime.now() taken so far

vars == <<pc, img, vision_backend, quality, located, face_box, partial_face,
          rois, gray_rois, risk, score, result, exc, fp_side, calls,
          session_state, page, clock>>

\* Optional[T]: None, or a one-element tuple holding the value.
None == <<>>
Some(v) == <<v>>

Min(a, b) == IF a <= b THEN a ELSE b
Max(a, b) == IF a >= b THEN a ELSE b

(***************************************************************************)
(* Program constants.                                                      *)
(***************************************************************************)
DarkThreshold == 55
BlurNoteThreshold == 45
BlurHardFloor == 25
FallbackMinSide == 200
HaarMinSize == 80
ReasonThreshold == 5500
CategoryLowBelow == 45
CategoryMediumBelow == 70
ConfidenceHighBelow == 40
ConfidenceHighAbove == 80

TooDarkNote == "Too dark (low lighting)."
BlurryNote == "Blurry image (low sharpness)."
AcceptableNote == "Capture quality looks acceptable."
BlurMessage == "Image is too blurry for reliable analysis. Please hold the camera steady."
NoFaceMessage == "No full face detected. Please ensure your eyes, nose, and mouth are fully visible."
OkMessage == "OK"
PartialFaceReason == "Analysis is based on a partial face. Results may be less reliable."
LipsReason == "Lip region suggests dryness-like cues."
EyesReason == "Eye region suggests fatigue-like cues."
SkinReason == "Skin region suggests lower vitality-like cues."
BalancedReason == "Overall signals look balanced under current capture conditions."

(***************************************************************************)
(* Bounds of the model.                                                    *)
(***************************************************************************)
\* longest pixel sequence standing for a crop
MaxLen == 2
\* number of steps of the risk grid wellness_score is applied to
GridN == 20

(***************************************************************************)
(* pipeline/quality.py                                                     *)
(***************************************************************************)
\* variant: a brightness of exactly 55 counts as too dark
compute_quality_inclusive(im) ==
    LET dark == IF im.brightness <= DarkThreshold THEN <<TooDarkNote>> ELSE <<>>
        blur == IF im.lap_var < BlurNoteThreshold THEN <<BlurryNote>> ELSE <<>>
        notes == dark \o blur
    IN [brightness_mean |-> im.brightness,
        blur_laplacian_var |-> im.lap_var,
        notes |-> IF notes = <<>> THEN <<AcceptableNote>> ELSE notes]

compute_quality(im) ==
    LET dark == IF im.brightness < DarkThreshold THEN <<TooDarkNote>> ELSE <<>>
        blur == IF im.lap_var < BlurNoteThreshold THEN <<BlurryNote>> ELSE <<>>
        notes == dark \o blur
    IN [brightness_mean |-> im.brightness,
        blur_laplacian_var |-> im.lap_var,
        notes |-> IF notes = <<>> THEN <<AcceptableNote>> ELSE notes]

(***************************************************************************)
(* pipeline/roi.py                                                         *)
(***************************************************************************)
\* (pct, n) whose product 0.pct * n, in IEEE-754 doubles, is just below the
\* whole number pct*n/100, so that int() yields one less (n up to 400).
FloatShort == {<<82, 150>>, <<82, 300>>, <<70, 90>>, <<70, 170>>, <<70, 180>>,
               <<70, 330>>, <<70, 340>>, <<70, 350>>, <<70, 360>>}

\* int(0.pct * n): truncation toward zero of the floating-point product
PyInt(pct, n) ==
    LET a == IF n >= 0 THEN n ELSE -n
        t == ((pct * a) \div 100) - (IF <<pct, a>> \in FloatShort THEN 1 ELSE 0)
    IN IF n >= 0 THEN t ELSE -t

\* variant: an empty box is left as it is
clamp_box_no_repair(x1, y1, x2, y2, w, h) ==
    <<Max(0, Min(x1, w - 1)), Max(0, Min(y1, h - 1)),
      Max(0, Min(x2, w - 1)), Max(0, Min(y2, h - 1))>>

\* variant: the repair of an empty box moves x2, y2 on without the limit of
\* the last column and row
clamp_box_unlimited_repair(x1, y1, x2, y2, w, h) ==
    LET cx1 == Max(0, Min(x1, w - 1))
        cx2 == Max(0, Min(x2, w - 1))
        cy1 == Max(0, Min(y1, h - 1))
        cy2 == Max(0, Min(y2, h - 1))
        fx2 == IF cx2 <= cx1 THEN cx1 + 1 ELSE cx2
        fy2 == IF cy2 <= cy1 THEN cy1 + 1 ELSE cy2
    IN <<cx1, cy1, fx2, fy2>>

clamp_box(x1, y1, x2, y2, w, h) ==
    LET cx1 == Max(0, Min(x1, w - 1))
        cx2 == Max(0, Min(x2, w - 1))
        cy1 == Max(0, Min(y1, h - 1))
        cy2 == Max(0, Min(y2, h - 1))
        fx2 == IF cx2 <= cx1 THEN Min(w - 1, cx1 + 1) ELSE cx2
        fy2 == IF cy2 <= cy1 THEN Min(h - 1, cy1 + 1) ELSE cy2
    IN <<cx1, cy1, fx2, fy2>>

derive_rois(h, w, fb) ==
    LET x1 == fb[1]
        y1 == fb[2]
        x2 == fb[3]
        y2 == fb[4]
        fw == x2 - x1
        fh == y2 - y1
    IN [face |-> clamp_box(x1, y1, x2, y2, w, h),
        eyes |-> clamp_box(x1 + PyInt(15, fw), y1 + PyInt(20, fh),
                           x1 + PyInt(85, fw), y1 + PyInt(48, fh), w, h),
        lips |-> clamp_box(x1 + PyInt(25, fw), y1 + PyInt(62, fh),
                           x1 + PyInt(75, fw), y1 + PyInt(82, fh), w, h),
        skin |-> clamp_box(x1 + PyInt(18, fw), y1 + PyInt(48, fh),
                           x1 + PyInt(82, fw), y1 + PyInt(70, fh), w, h)]

(***************************************************************************)
(* domain/scoring.py                                                       *)
(***************************************************************************)
\* float('nan'): what numpy's mean() and std() give for an empty array
NaN == -1000000
IsNaN(v) == v = NaN

RECURSIVE Sum(_)
Sum(s) == IF s = <<>> THEN 0 ELSE Head(s) + Sum(Tail(s))

RECURSIVE SumSq(_)
SumSq(s) == IF s = <<>> THEN 0 ELSE Head(s) * Head(s) + SumSq(Tail(s))

RECURSIVE ISqrtIn(_, _, _)
ISqrtIn(v, lo, hi) ==
    IF lo >= hi THEN lo
    ELSE LET mid == (lo + hi + 1) \div 2
         IN IF mid * mid <= v THEN ISqrtIn(v, mid, hi) ELSE ISqrtIn(v, lo, mid - 1)

\* floor of the square root
ISqrt(v) == ISqrtIn(v, 0, 46340)

\* (mean, std) of a pixel array, in hundredths; (nan, nan) for an empty one
roi_stat(gray_roi) ==
    LET n == Len(gray_roi)
    IN IF n = 0 THEN <<NaN, NaN>>
       ELSE <<(Sum(gray_roi) * 100) \div n,
              ISqrt((n * SumSq(gray_roi) - Sum(gray_roi) * Sum(gray_roi)) * 10000) \div n>>

\* np.clip((ref - v) / ref, 0, 1) in thousandths, v in hundredths; nan stays nan
clip01(ref, v) ==
    IF IsNaN(v) THEN NaN
    ELSE IF ref * 100 - v <= 0 THEN 0
    ELSE IF ref * 100 - v >= ref * 100 THEN 1000
    ELSE ((ref * 100 - v) * 1000) \div (ref * 100)

\* a * wa + b * wb with weights in tenths: a risk in units of 1/10000
weighted(a, wa, b, wb) ==
    IF IsNaN(a) \/ IsNaN(b) THEN NaN ELSE a * wa + b * wb

risk_from_rois(eyes_gray, lips_gray, skin_gray) ==
    LET e == roi_stat(eyes_gray)
        l == roi_stat(lips_gray)
        s == roi_stat(skin_gray)
    IN [eyes |-> weighted(clip01(110, e[1]), 6, clip01(25, e[2]), 4),
        lips |-> weighted(clip01(115, l[1]), 7, clip01(22, l[2]), 3),
        skin |-> weighted(clip01(120, s[1]), 6, clip01(20, s[2]), 4)]

\* round(num/den), num/den >= 0, to the nearest integer.  When the exact value
\* is a tie x.5 the double 100 * (1.0 - agg) lies at or on either side of it,
\* as the rounding errors of the products fall, and round() yields x or x + 1:
\* side tells which (0: x, 1: x + 1).
\* variant: the fraction cut off, as int() alone would do
PyRound_trunc(num, den, side) == num \div den

PyRound(num, den, side) ==
    LET q == num \div den
        r == num % den
    IN IF 2 * r > den THEN q + 1
       ELSE IF 2 * r < den THEN q
       ELSE q + side

\* variant: the band limits taken inclusively
category_of_inclusive(s) ==
    IF s <= CategoryLowBelow THEN "Low"
    ELSE IF s <= CategoryMediumBelow THEN "Medium"
    ELSE "Good"

category_of(s) ==
    IF s < CategoryLowBelow THEN "Low"
    ELSE IF s < CategoryMediumBelow THEN "Medium"
    ELSE "Good"

\* variant: the limits 40 and 80 counted as High
confidence_of_inclusive(s) ==
    IF s <= ConfidenceHighBelow \/ s >= ConfidenceHighAbove THEN "High" ELSE "Medium"

confidence_of(s) ==
    IF s < ConfidenceHighBelow \/ s > ConfidenceHighAbove THEN "High" ELSE "Medium"

\* variant: a risk of exactly 0.55 counted as exceeding the threshold
reasons_of_inclusive(r) ==
    LET rs == (IF r.lips >= ReasonThreshold THEN <<LipsReason>> ELSE <<>>)
              \o (IF r.eyes >= ReasonThreshold THEN <<EyesReason>> ELSE <<>>)
              \o (IF r.skin >= ReasonThreshold THEN <<SkinReason>> ELSE <<>>)
    IN IF rs = <<>> THEN <<BalancedReason>> ELSE rs

\* variant: the eye sentence appended before the lip sentence
reasons_of_eyes_first(r) ==
    LET rs == (IF r.eyes > ReasonThreshold THEN <<EyesReason>> ELSE <<>>)
              \o (IF r.lips > ReasonThreshold THEN <<LipsReason>> ELSE <<>>)
              \o (IF r.skin > ReasonThreshold THEN <<SkinReason>> ELSE <<>>)
    IN IF rs = <<>> THEN <<BalancedReason>> ELSE rs

reasons_of(r) ==
    LET rs == (IF r.lips > ReasonThreshold THEN <<LipsReason>> ELSE <<>>)
              \o (IF r.eyes > ReasonThreshold THEN <<EyesReason>> ELSE <<>>)
              \o (IF r.skin > ReasonThreshold THEN <<SkinReason>> ELSE <<>>)
    IN IF rs = <<>> THEN <<BalancedReason>> ELSE rs

\* variant: the skin term added to the score instead of taken from it
scaled_score_skin_added(r) == 1000000 - (40 * r.eyes + 35 * r.lips - 25 * r.skin)

\* variant: the skin weight mistyped as 0.35, the weights then sum to 1.1
scaled_score_heavy(r) == 1000000 - (40 * r.eyes + 35 * r.lips + 35 * r.skin)

\* 100 * (1 - agg) in units of 1/10000, agg = 0.4 eyes + 0.35 lips + 0.25 skin
scaled_score(r) == 1000000 - (40 * r.eyes + 35 * r.lips + 25 * r.skin)

\* the returned tuple, or the ValueError round() raises on nan
wellness_score(r, side) ==
    IF IsNaN(r.eyes) \/ IsNaN(r.lips) \/ IsNaN(r.skin)
    THEN [raised |-> "ValueError", score |-> 0, category |-> "", confidence |-> "",
          reasons |-> <<>>]
    ELSE LET s == PyRound(scaled_score(r), 10000, side)
         IN [raised |-> "", score |-> s, category |-> category_of(s),
             confidence |-> confidence_of(s), reasons |-> reasons_of(r)]

(***************************************************************************)
(* pipeline/explain.py, adapters, services                                 *)
(***************************************************************************)
\* variant: the rectangles drawn on the caller's array itself, which is
\* then handed back
draw_overlay_in_place(im, r) ==
    LET boxes == <<r.face, r.eyes, r.lips, r.skin>>
    IN [out |-> [array |-> "img_bgr", h |-> im.h, w |-> im.w, copy_of |-> im,
                 boxes |-> boxes],
        img_bgr |-> [im EXCEPT !.drawn = @ \o boxes]]

\* out is a new array, img_bgr.copy(), with the four rectangles drawn on it;
\* img_bgr is the caller's array as the call leaves it
draw_overlay(im, r) ==
    LET boxes == <<r.face, r.eyes, r.lips, r.skin>>
    IN [out |-> [array |-> "out", h |-> im.h, w |-> im.w, copy_of |-> im,
                 boxes |-> boxes],
        img_bgr |-> im]

\* sides of the square windows the cascade reports in the model
FaceSides == {80, 150}

\* LocalVisionAdapter.detect_face: None, or the largest detection as
\* (x, y, x + w, y + h); a detection is at least minSize and lies in the frame
local_detections(im) ==
    {None} \cup
    {<<x, y, x + s, y + s>> : <<x, y, s>> \in
        {t \in {0, im.w - 80, im.w - 150} \X {0, im.h - 80, im.h - 150} \X FaceSides :
            /\ t[3] >= HaarMinSize
            /\ t[1] >= 0 /\ t[1] + t[3] <= im.w
            /\ t[2] >= 0 /\ t[2] + t[3] <= im.h}}

\* VisionService.from_settings(...).detect_face: the outcomes of the adapter
\* the setting selects
detect_face(backend, im) ==
    IF backend = "alibaba_imm"
    THEN {[raised |-> "NotImplementedError", box |-> None]}
    ELSE {[raised |-> "", box |-> b] : b \in local_detections(im)}

(***************************************************************************)
(* pipeline/pipeline.py                                                    *)
(***************************************************************************)
\* variant: the overlay is never attached
AnalysisResult_no_explain(ok, message, q, sc, ex) ==
    [ok |-> ok, message |-> message, quality |-> q, score |-> sc, explain |-> None]

\* variant: the quality notes are dropped from the result
AnalysisResult_no_notes(ok, message, q, sc, ex) ==
    [ok |-> ok, message |-> message, quality |-> [q EXCEPT !.notes = <<>>],
     score |-> sc, explain |-> ex]

AnalysisResult(ok, message, q, sc, ex) ==
    [ok |-> ok, message |-> message, quality |-> q, score |-> sc, explain |-> ex]

\* variant: the two blur thresholds collapsed into the advisory one
too_blurry_single_tier(q) == q.blur_laplacian_var < BlurNoteThreshold

\* variant: the hard floor one unit lower
too_blurry_lower(q) == q.blur_laplacian_var < BlurHardFloor - 1

too_blurry(q) == q.blur_laplacian_var < BlurHardFloor

\* variant: the fallback needs a frame one pixel larger
fallback_allowed_larger(h, w) == h > FallbackMinSide + 1 /\ w > FallbackMinSide + 1

\* variant: one large side is enough for the fallback
fallback_allowed_either(h, w) == h > FallbackMinSide \/ w > FallbackMinSide

fallback_allowed(h, w) == h > FallbackMinSide /\ w > FallbackMinSide

\* variant: the shares of the width and of the height taken for each other
fallback_box_swapped(h, w) == <<PyInt(15, w), PyInt(25, h), PyInt(85, w), PyInt(75, h)>>

fallback_box(h, w) == <<PyInt(25, w), PyInt(15, h), PyInt(75, w), PyInt(85, h)>>

\* variant: a partial-face flag that outlives the call, so that the caveat
\* sticks once any call has used the fallback
final_reasons_sticky(reasons, partial) ==
    IF partial \/ (\E c \in calls : c.score # None /\
                        \E i \in DOMAIN c.score[1].reasons :
                            c.score[1].reasons[i] = PartialFaceReason)
    THEN Append(reasons, PartialFaceReason)
    ELSE reasons

\* variant: the caveat put in front of the Aggregator's reasons
final_reasons_caveat_first(reasons, partial) ==
    IF partial THEN <<PartialFaceReason>> \o reasons ELSE reasons

\* the reasons of the ScoreResult: the caveat appended on the fallback path
final_reasons(reasons, partial) ==
    IF partial THEN Append(reasons, PartialFaceReason) ELSE reasons

\* gray[y1:y2, x1:x2]: empty unless the box has positive area
crop(im, b, region) ==
    IF b[3] > b[1] /\ b[4] > b[2] THEN im[region] ELSE <<>>

QualityCheck ==
    /\ pc = "QUALITY_CHECK"
    /\ LET q == compute_quality(img)
       IN /\ quality' = Some(q)
          /\ IF too_blurry(q)
             THEN /\ result' = Some(AnalysisResult(FALSE, BlurMessage, q, None, None))
                  /\ pc' = "FAIL_BLUR"
             ELSE /\ result' = result
                  /\ pc' = "FACE_LOCATE"
    /\ UNCHANGED <<img, vision_backend, located, face_box, partial_face, rois,
                   gray_rois, risk, score, exc, fp_side, calls,
                   session_state, page, clock>>

FaceLocate ==
    /\ pc = "FACE_LOCATE"
    /\ \E d \in detect_face(vision_backend, img) :
        /\ located' = Some(d)
        /\ IF d.raised # ""
           THEN /\ pc' = "RAISED"
                /\ exc' = d.raised
                /\ UNCHANGED <<face_box, partial_face, result>>
           ELSE IF d.box # None
           THEN /\ face_box' = d.box
                /\ partial_face' = FALSE
                /\ pc' = "REGION_DERIVE"
                /\ UNCHANGED <<result, exc>>
           ELSE IF fallback_allowed(img.h, img.w)
           THEN /\ face_box' = fallback_box(img.h, img.w)
                /\ partial_face' = TRUE
                /\ pc' = "REGION_DERIVE"
                /\ UNCHANGED <<result, exc>>
           ELSE /\ result' = Some(AnalysisResult(FALSE, NoFaceMessage, quality[1],
                                                 None, None))
                /\ pc' = "FAIL_NO_FACE"
                /\ UNCHANGED <<face_box, partial_face, exc>>
    /\ UNCHANGED <<img, vision_backend, quality, rois, gray_rois, risk, score,
                   fp_side, calls,
                   session_state, page, clock>>

RegionDerive ==
    /\ pc = "REGION_DERIVE"
    /\ rois' = Some(derive_rois(img.h, img.w, face_box))
    /\ pc' = "RISK_SCORE"
    /\ UNCHANGED <<img, vision_backend, quality, located, face_box, partial_face,
                   gray_rois, risk, score, result, exc, fp_side, calls,
                   session_state, page, clock>>

RiskScore ==
    /\ pc = "RISK_SCORE"
    /\ LET g == [eyes |-> crop(img, rois[1].eyes, "eyes"),
                 lips |-> crop(img, rois[1].lips, "lips"),
                 skin |-> crop(img, rois[1].skin, "skin")]
       IN /\ gray_rois' = Some(g)
          /\ risk' = Some(risk_from_rois(g.eyes, g.lips, g.skin))
    /\ pc' = "AGGREGATE"
    /\ UNCHANGED <<img, vision_backend, quality, located, face_box, partial_face,
                   rois, score, result, exc, fp_side, calls,
                   session_state, page, clock>>

Aggregate ==
    /\ pc = "AGGREGATE"
    /\ LET ws == wellness_score(risk[1], fp_side)
           sr == [score |-> ws.score, category |-> ws.category,
                  confidence |-> ws.confidence,
                  reasons |-> final_reasons(ws.reasons, partial_face),
                  risk_components |-> risk[1]]
           ov == draw_overlay(img, rois[1])
           ex == [overlay_bgr |-> ov.out]
       IN IF ws.raised # ""
          THEN /\ pc' = "RAISED"
               /\ exc' = ws.raised
               /\ UNCHANGED <<img, score, result>>
          ELSE /\ img' = ov.img_bgr
               /\ score' = Some(sr)
               /\ result' = Some(AnalysisResult(TRUE, OkMessage, quality[1],
                                                Some(sr), Some(ex)))
               /\ pc' = "DONE"
               /\ exc' = exc
    /\ UNCHANGED <<vision_backend, quality, located, face_box, partial_face,
                   rois, gray_rois, risk, fp_side, calls,
                   session_state, page, clock>>

(***************************************************************************)
(* app/pages/1_Demo.py                                                     *)
(***************************************************************************)
CONTEXT_OPTIONS == {"Athlete", "Traveler", "Office", "Parent"}

\* CONTEXT_TIPS.get(context, {}).get(category, [])
CONTEXT_TIPS(context, category) ==
    CASE context = "Athlete" /\ category = "Low" ->
             <<"Drink water + consider electrolytes after heavy sweating.">>
      [] context = "Athlete" /\ category = "Medium" ->
             <<"Hydrate steadily during training; sip every 10-15 minutes.">>
      [] context = "Athlete" /\ category = "Good" ->
             <<"Maintain hydration before and after workouts.">>
      [] context = "Traveler" /\ category = "Low" ->
             <<"Air travel can be dehydrating - hydrate and rest.">>
      [] context = "Traveler" /\ category = "Medium" ->
             <<"Drink water regularly; avoid too much caffeine.">>
      [] context = "Traveler" /\ category = "Good" ->
             <<"Keep water accessible throughout the day.">>
      [] context = "Office" /\ category = "Low" ->
             <<"Take a 5-minute break from screens and drink water.">>
      [] context = "Office" /\ category = "Medium" ->
             <<"Small sips + short screen breaks help.">>
      [] context = "Office" /\ category = "Good" ->
             <<"Keep a water bottle nearby and stay consistent.">>
      [] context = "Parent" /\ category = "Low" ->
             <<"Encourage water intake and monitor comfort.">>
      [] context = "Parent" /\ category = "Medium" ->
             <<"Offer water and a short rest.">>
      [] context = "Parent" /\ category = "Good" ->
             <<"Maintain regular hydration habits.">>
      [] OTHER -> <<>>

\* BASE_TIPS.get(category, [])
BASE_TIPS(category) ==
    CASE category = "Low" ->
             <<"Drink 300-500ml water now.",
               "Avoid caffeine for the next 1-2 hours.",
               "Re-check in 30 minutes.">>
      [] category = "Medium" ->
             <<"Drink a glass of water.",
               "Take a short break and rest your eyes.",
               "Re-check later today.">>
      [] category = "Good" ->
             <<"You look well hydrated - keep your routine.",
               "Maintain steady water intake through the day.">>
      [] OTHER -> <<>>

\* the number of tips _tips_for hands out, and of records the history keeps
TipsShown == 3
HistoryCap == 50

\* s[:n]
Head_n(s, n) == SubSeq(s, 1, Min(n, Len(s)))
\* s[-n:]
Last_n(s, n) == SubSeq(s, Max(1, Len(s) - n + 1), Len(s))

tips_for(category, context) ==
    Head_n(BASE_TIPS(category) \o CONTEXT_TIPS(context, category), TipsShown)

\* the buttons of the page
AnalyzeButton == "Analyze Snapshot"
ClearHistoryButton == "Clear session history"
ClearBaselineSidebar == "sidebar: Clear baseline"
SetBaselineButton == "Set baseline from this snapshot"
ClearBaselineInner == "personalization: Clear baseline"
DEMO_FILES == {"Hydrated / Good", "Likely Dehydrated", "Office / Tired"}
NoDemoPick == "None (use upload)"

\* st.session_state after _init_state on a new session (selected_demo_file
\* goes with selected_demo_label)
init_state ==
    [history |-> <<>>, baseline |-> None, selected_demo_label |-> None,
     run_requested |-> FALSE]

select_demo(ss, label) ==
    [ss EXCEPT !.selected_demo_label = Some(label), !.run_requested = TRUE]

\* variant: the history cut to its first records
push_history_keep_first(ss, res, context, now) ==
    IF ~res.ok \/ res.score = None THEN ss
    ELSE [ss EXCEPT !.history =
             Head_n(Append(@, [timestamp |-> now,
                               score |-> res.score[1].score,
                               category |-> res.score[1].category,
                               confidence |-> res.score[1].confidence,
                               context |-> context,
                               brightness_mean |-> res.quality.brightness_mean,
                               blur_laplacian_var |-> res.quality.blur_laplacian_var]),
                    HistoryCap)]

push_history(ss, res, context, now) ==
    IF ~res.ok \/ res.score = None THEN ss
    ELSE [ss EXCEPT !.history =
             Last_n(Append(@, [timestamp |-> now,
                               score |-> res.score[1].score,
                               category |-> res.score[1].category,
                               confidence |-> res.score[1].confidence,
                               context |-> context,
                               brightness_mean |-> res.quality.brightness_mean,
                               blur_laplacian_var |-> res.quality.blur_laplacian_var]),
                    HistoryCap)]

\* what a run of the script did and showed in the results column; context
\* is the scenario the tips and the history record were made with
Shown(clicked, outcome, res, delta, tips, context) ==
    [clicked |-> clicked, outcome |-> outcome, res |-> res, delta |-> delta,
     tips |-> tips, context |-> context]

\* One run of the script, started by the click on `clicked` ("" when a widget
\* other than a button was changed).  context, demo_pick and uploaded are the
\* widgets' values, demo_loads says whether the demo file can be read, answer
\* is what analyze_image does if it is called, now the clock.
demo_page(ss, clicked, context, demo_pick, demo_loads, uploaded, answer, now) ==
    LET \* sidebar
        s1 == [ss EXCEPT !.selected_demo_label =
                   IF demo_pick # NoDemoPick THEN Some(demo_pick) ELSE None]
        s2 == IF clicked = ClearHistoryButton THEN [s1 EXCEPT !.history = <<>>] ELSE s1
        s3 == IF clicked = ClearBaselineSidebar THEN [s2 EXCEPT !.baseline = None] ELSE s2
        \* left column
        s4 == IF clicked \in DEMO_FILES THEN select_demo(s3, clicked) ELSE s3
        run == clicked = AnalyzeButton \/ s4.run_requested
        \* right column
        have_img == (s4.selected_demo_label # None /\ demo_loads) \/ uploaded
        s5 == [s4 EXCEPT !.run_requested = FALSE]
    IN IF ~run
       THEN [session_state |-> s4, clock |-> now,
             page |-> Shown(clicked, "preview", None, None, <<>>, None)]
       ELSE IF ~have_img
       THEN [session_state |-> s5, clock |-> now,
             page |-> Shown(clicked, "no image", None, None, <<>>, None)]
       ELSE IF answer.raised # ""
       THEN [session_state |-> s5, clock |-> now,
             page |-> Shown(clicked, answer.raised, None, None, <<>>, None)]
       ELSE IF ~answer.res.ok
       THEN [session_state |-> s5, clock |-> now,
             page |-> Shown(clicked, "failed", Some(answer.res), None, <<>>, None)]
       ELSE LET res == answer.res
                s == res.score[1]
                delta == IF s5.baseline # None
                         THEN Some(s.score - s5.baseline[1].score)
                         ELSE None
                set == clicked = SetBaselineButton
                s6 == IF set
                      THEN [s5 EXCEPT !.baseline =
                               Some([score |-> s.score, category |-> s.category,
                                     confidence |-> s.confidence,
                                     timestamp |-> now + 1])]
                      ELSE s5
                s7 == IF clicked = ClearBaselineInner
                      THEN [s6 EXCEPT !.baseline = None]
                      ELSE s6
                t == IF set THEN now + 2 ELSE now + 1
            IN [session_state |-> push_history(s7, res, context, t), clock |-> t,
                page |-> Shown(clicked, "result", Some(res), delta,
                               tips_for(s.category, context), Some(context))]

\* nothing run yet
NoPage == Shown("", "preview", None, None, <<>>, None)

(***************************************************************************)
(* analyze_image on one image, under one configured backend.               *)
(***************************************************************************)
Dims == {150, 200, 201, 300}
Brightness == {54, 55}
LapVars == {24, 25, 44, 45, 200}
RegionPixels == {<<0>>, <<110, 255>>}

\* an image as the caller hands it over: nothing drawn on it
Images ==
    [h : Dims, w : Dims, brightness : Brightness, lap_var : LapVars,
     eyes : RegionPixels, lips : RegionPixels, skin : RegionPixels,
     drawn : {<<>>}]

\* nothing computed yet
Idle ==
    /\ quality = None
    /\ located = None
    /\ partial_face = FALSE
    /\ rois = None
    /\ score = None
    /\ result = None
    /\ exc = ""
    /\ calls = {}
    /\ session_state = init_state
    /\ page = NoPage
    /\ clock = 0

Init ==
    /\ pc = "QUALITY_CHECK"
    /\ img \in Images
    /\ vision_backend \in {"local", "alibaba_imm"}
    /\ fp_side \in {0, 1}
    /\ face_box = None
    /\ gray_rois = None
    /\ risk = None
    /\ Idle

Next == QualityCheck \/ FaceLocate \/ RegionDerive \/ RiskScore \/ Aggregate

Spec == Init /\ [][Next]_vars

(***************************************************************************)
(* analyze_image called again and again in one process: every call starts *)
(* with fresh locals; the settings are those read when config.py was       *)
(* imported.                                                               *)
(***************************************************************************)
\* number of earlier calls the model remembers
MaxCalls == 2

CallImages ==
    [h : {201}, w : {201}, brightness : {55}, lap_var : {24, 200},
     eyes : RegionPixels, lips : {<<0>>}, skin : {<<110, 255>>},
     drawn : {<<>>}]

Returned == {"DONE", "FAIL_BLUR", "FAIL_NO_FACE"}

\* what the call at hand was given and what it returned
CallRecord ==
    [img |-> img, located |-> located, quality |-> result[1].quality,
     score |-> result[1].score]

InitCalls ==
    /\ pc = "QUALITY_CHECK"
    /\ img \in CallImages
    /\ vision_backend \in {"local", "alibaba_imm"}
    /\ fp_side \in {0, 1}
    /\ face_box = None
    /\ gray_rois = None
    /\ risk = None
    /\ Idle

\* the caller calls analyze_image again, on any image
NewCall ==
    /\ pc \in Returned \cup {"RAISED"}
    /\ LET seen == IF pc \in Returned THEN calls \cup {CallRecord} ELSE calls
       IN /\ Cardinality(seen) <= MaxCalls
          /\ calls' = seen
    /\ pc' = "QUALITY_CHECK"
    /\ img' \in CallImages
    /\ quality' = None
    /\ located' = None
    /\ face_box' = None
    /\ partial_face' = FALSE
    /\ rois' = None
    /\ gray_rois' = None
    /\ risk' = None
    /\ score' = None
    /\ result' = None
    /\ exc' = ""
    /\ UNCHANGED <<vision_backend, fp_side, session_state, page, clock>>

NextCalls == Next \/ NewCall

SpecCalls == InitCalls /\ [][NextCalls]_vars

(***************************************************************************)
(* derive_rois applied to any image size and any face box.                 *)
(***************************************************************************)
RoiDims == {100, 201}
RoiCoords == {-30, 0, 1, 50, 98, 99, 100, 150, 250}

RoiBoxes ==
    {b \in RoiCoords \X RoiCoords \X RoiCoords \X RoiCoords :
        b[1] < b[3] /\ b[2] < b[4]}

InitRoi ==
    /\ pc = "derive_rois"
    /\ img \in [h : RoiDims, w : RoiDims]
    /\ face_box \in RoiBoxes \cup
                    (IF fallback_allowed(img.h, img.w)
                     THEN {fallback_box(img.h, img.w)} ELSE {})
    /\ vision_backend = "local"
    /\ fp_side = 0
    /\ gray_rois = None
    /\ risk = None
    /\ Idle

CallDeriveRois ==
    /\ pc = "derive_rois"
    /\ rois' = Some(derive_rois(img.h, img.w, face_box))
    /\ pc' = "returned"
    /\ UNCHANGED <<img, vision_backend, quality, located, face_box, partial_face,
                   gray_rois, risk, score, result, exc, fp_side, calls,
                   session_state, page, clock>>

SpecRoi == InitRoi /\ [][CallDeriveRois]_vars

(***************************************************************************)
(* risk_from_rois applied to any three pixel arrays.                       *)
(***************************************************************************)
Pixels == {0, 110, 255}

\* every pixel array of at most MaxLen pixels, the empty one included
PixelArrays == UNION {[1..n -> Pixels] : n \in 0..MaxLen}

InitRisk ==
    /\ pc = "risk_from_rois"
    /\ gray_rois \in {Some(g) : g \in [eyes : PixelArrays, lips : PixelArrays,
                                        skin : PixelArrays]}
    /\ img = [h |-> 1, w |-> 1]
    /\ face_box = None
    /\ vision_backend = "local"
    /\ fp_side = 0
    /\ risk = None
    /\ Idle

CallRiskFromRois ==
    /\ pc = "risk_from_rois"
    /\ risk' = Some(risk_from_rois(gray_rois[1].eyes, gray_rois[1].lips,
                                   gray_rois[1].skin))
    /\ pc' = "returned"
    /\ UNCHANGED <<img, vision_backend, quality, located, face_box, partial_face,
                   rois, gray_rois, score, result, exc, fp_side, calls,
                   session_state, page, clock>>

SpecRisk == InitRisk /\ [][CallRiskFromRois]_vars

(***************************************************************************)
(* wellness_score applied to any risk components in [0,1].                 *)
(***************************************************************************)
\* risks k/GridN of 1, the two values around the reason threshold, and 0.1
\* and 0.9
RiskGrid == {k * (10000 \div GridN) : k \in 0..GridN} \cup {1000, 5500, 5501, 9000}

InitScore ==
    /\ pc = "wellness_score"
    /\ risk \in {Some(r) : r \in [eyes : RiskGrid, lips : RiskGrid, skin : RiskGrid]}
    /\ fp_side \in {0, 1}
    /\ img = [h |-> 1, w |-> 1]
    /\ face_box = None
    /\ vision_backend = "local"
    /\ gray_rois = None
    /\ Idle

CallWellnessScore ==
    /\ pc = "wellness_score"
    /\ score' = Some(wellness_score(risk[1], fp_side))
    /\ pc' = "returned"
    /\ UNCHANGED <<img, vision_backend, quality, located, face_box, partial_face,
                   rois, gray_rois, risk, result, exc, fp_side, calls,
                   session_state, page, clock>>

SpecScore == InitScore /\ [][CallWellnessScore]_vars

(***************************************************************************)
(* wellness_score called again with one risk component raised.             *)
(***************************************************************************)
\* the caller keeps what the first call was given and returned, raises one of
\* the three risk components and calls a second time
RaiseRisk ==
    /\ pc = "returned"
    /\ calls = {}
    /\ score[1].raised = ""
    /\ \E k \in {"eyes", "lips", "skin"}, v \in RiskGrid :
          /\ v > risk[1][k]
          /\ risk' = Some([risk[1] EXCEPT ![k] = v])
    /\ calls' = {[risk |-> risk[1], score |-> score[1]]}
    /\ score' = None
    /\ pc' = "wellness_score"
    /\ UNCHANGED <<img, vision_backend, quality, located, face_box, partial_face,
                   rois, gray_rois, result, exc, fp_side, session_state, page,
                   clock>>

SpecRaise == InitScore /\ [][CallWellnessScore \/ RaiseRisk]_vars

(***************************************************************************)
(* The demo page in one browser session: the user changes widgets and      *)
(* clicks buttons, and each interaction runs the script once.              *)
(***************************************************************************)
\* analyses a session may run: a few, with every scenario and several results
MaxDemoRuns == 2
\* analyses a session may run: more than the history keeps
MaxRuns == 52

\* an AnalysisResult of a successful call with risk components r
OkResult(r) ==
    LET ws == wellness_score(r, 0)
        q == compute_quality([brightness |-> 128, lap_var |-> 200])
        sr == [score |-> ws.score, category |-> ws.category,
               confidence |-> ws.confidence,
               reasons |-> final_reasons(ws.reasons, FALSE),
               risk_components |-> r]
    IN AnalysisResult(TRUE, OkMessage, q, Some(sr), Some([overlay_bgr |-> "overlay"]))

BlurResult ==
    AnalysisResult(FALSE, BlurMessage,
                   compute_quality([brightness |-> 128, lap_var |-> 24]), None, None)

NoFaceResult ==
    AnalysisResult(FALSE, NoFaceMessage,
                   compute_quality([brightness |-> 128, lap_var |-> 200]), None, None)

Returns(res) == [raised |-> "", res |-> res]

\* what analyze_image may do when the page calls it: scores 100 (Good),
\* 58 (Medium) and 0 (Low), a failure, and the remote backend's fault
DemoAnswers ==
    IF vision_backend = "alibaba_imm"
    THEN {Returns(BlurResult), [raised |-> "NotImplementedError", res |-> None]}
    ELSE {Returns(OkResult([eyes |-> 0, lips |-> 0, skin |-> 0])),
          Returns(OkResult([eyes |-> 9000, lips |-> 1000, skin |-> 1000])),
          Returns(OkResult([eyes |-> 10000, lips |-> 10000, skin |-> 10000])),
          Returns(BlurResult)}

HistoryAnswers ==
    {Returns(OkResult([eyes |-> 9000, lips |-> 1000, skin |-> 1000])),
     Returns(NoFaceResult)}

\* the values the radio of the sidebar takes
RadioPicks == {NoDemoPick, "Likely Dehydrated"}

\* the image at hand: <<demo_loads, uploaded>>
ImageInputs == {<<TRUE, FALSE>>, <<FALSE, TRUE>>, <<FALSE, FALSE>>}

InitDemo ==
    /\ pc = "page"
    /\ img = [h |-> 1, w |-> 1]
    /\ vision_backend \in {"local", "alibaba_imm"}
    /\ fp_side = 0
    /\ face_box = None
    /\ gray_rois = None
    /\ risk = None
    /\ Idle

InitHistory ==
    /\ pc = "page"
    /\ img = [h |-> 1, w |-> 1]
    /\ vision_backend = "local"
    /\ fp_side = 0
    /\ face_box = None
    /\ gray_rois = None
    /\ risk = None
    /\ Idle

\* the script runs once, the widgets holding any values; what a run without
\* analysis does not read is not varied
Rerun(clicked, contexts, answers, max) ==
    /\ pc = "page"
    /\ LET runs == \/ clicked = AnalyzeButton
                   \/ clicked \in DEMO_FILES
                   \/ session_state.run_requested
           one(S) == IF runs THEN S ELSE {CHOOSE x \in S : TRUE}
       IN \E demo_pick \in RadioPicks, context \in one(contexts),
             im \in one(ImageInputs), answer \in one(answers) :
          LET r == demo_page(session_state, clicked, context, demo_pick,
                             im[1], im[2], answer, clock)
          IN /\ r.clock <= max
             /\ session_state' = r.session_state
             /\ page' = r.page
             /\ clock' = r.clock
    /\ UNCHANGED <<pc, img, vision_backend, quality, located, face_box,
                   partial_face, rois, gray_rois, risk, score, result, exc,
                   fp_side, calls>>

\* the expander with the two personalization buttons is on the page
PersonalizationShown == page.outcome = "result"

ChangeWidget(contexts, answers, max) == Rerun("", contexts, answers, max)

ClickAnalyze(contexts, answers, max) == Rerun(AnalyzeButton, contexts, answers, max)

ClickDemo(contexts, answers, max) ==
    \E label \in DEMO_FILES : Rerun(label, contexts, answers, max)

ClickClearHistory(contexts, answers, max) ==
    Rerun(ClearHistoryButton, contexts, answers, max)

ClickClearBaseline(contexts, answers, max) ==
    Rerun(ClearBaselineSidebar, contexts, answers, max)

ClickSetBaseline(contexts, answers, max) ==
    /\ PersonalizationShown
    /\ Rerun(SetBaselineButton, contexts, answers, max)

ClickClearBaselineInner(contexts, answers, max) ==
    /\ PersonalizationShown
    /\ Rerun(ClearBaselineInner, contexts, answers, max)

NextDemo ==
    \/ ChangeWidget(CONTEXT_OPTIONS, DemoAnswers, MaxDemoRuns)
    \/ ClickAnalyze(CONTEXT_OPTIONS, DemoAnswers, MaxDemoRuns)
    \/ ClickDemo(CONTEXT_OPTIONS, DemoAnswers, MaxDemoRuns)
    \/ ClickClearHistory(CONTEXT_OPTIONS, DemoAnswers, MaxDemoRuns)
    \/ ClickClearBaseline(CONTEXT_OPTIONS, DemoAnswers, MaxDemoRuns)
    \/ ClickSetBaseline(CONTEXT_OPTIONS, DemoAnswers, MaxDemoRuns)
    \/ ClickClearBaselineInner(CONTEXT_OPTIONS, DemoAnswers, MaxDemoRuns)

SpecDemo == InitDemo /\ [][NextDemo]_vars

\* the same page with one scenario and two results, run after run
NextHistory ==
    \/ ChangeWidget({"Office"}, HistoryAnswers, MaxRuns)
    \/ ClickAnalyze({"Office"}, HistoryAnswers, MaxRuns)
    \/ ClickDemo({"Office"}, HistoryAnswers, MaxRuns)
    \/ ClickClearHistory({"Office"}, HistoryAnswers, MaxRuns)
    \/ ClickClearBaseline({"Office"}, HistoryAnswers, MaxRuns)
    \/ ClickSetBaseline({"Office"}, HistoryAnswers, MaxRuns)
    \/ ClickClearBaselineInner({"Office"}, HistoryAnswers, MaxRuns)

SpecHistory == InitHistory /\ [][NextHistory]_vars

(***************************************************************************)
(* Properties of analyze_image (specification Spec).                       *)
(***************************************************************************)
\* the FaceLocator answered not-found
NotFound == located # None /\ located[1].raised = "" /\ located[1].box = None

InProgress == {"QUALITY_CHECK", "FACE_LOCATE", "REGION_DERIVE", "RISK_SCORE", "AGGREGATE"}

\* the call went on to a successful, partial-face result
PartialFaceSuccess ==
    /\ pc \in {"REGION_DERIVE", "RISK_SCORE", "AGGREGATE", "DONE"}
    /\ pc \in InProgress => ENABLED Next
    /\ pc = "DONE" =>
        /\ result # None
        /\ result[1].ok
        /\ result[1].score # None
        /\ \E i \in DOMAIN result[1].score[1].reasons :
              result[1].score[1].reasons[i] = PartialFaceReason

\* C1: an image whose blur variance is below 25 is answered ok=false with the
\* too-blurry message, no score and no explain, under either backend and
\* without the FaceLocator being consulted.
C1_BlurBlocks ==
    (pc # "QUALITY_CHECK" /\ img.lap_var < 25) =>
        /\ pc = "FAIL_BLUR"
        /\ located = None
        /\ result = Some([ok |-> FALSE, message |-> BlurMessage,
                          quality |-> compute_quality(img),
                          score |-> None, explain |-> None])

C1_Witness ==
    /\ pc = "FAIL_BLUR"
    /\ img.lap_var = 24
    /\ result # None
    /\ ~result[1].ok

\* C2 as stated: an image of at least 200 x 200 with blur variance >= 25 and
\* no face found is answered ok=true with a score and the partial-face reason.
C2_AtLeast200 ==
    (NotFound /\ img.lap_var >= 25 /\ img.h >= 200 /\ img.w >= 200) => PartialFaceSuccess

\* C2 amended: an image of more than 200 x 200 (height > 200 and width > 200)
\* with blur variance >= 25 and no face found is answered ok=true with a score
\* and the partial-face reason.
C2_Above200 ==
    (NotFound /\ img.lap_var >= 25 /\ img.h > 200 /\ img.w > 200) => PartialFaceSuccess

C2_Witness ==
    /\ pc = "DONE"
    /\ NotFound
    /\ img.h = 201
    /\ img.w = 201
    /\ result[1].ok
    /\ result[1].score[1].reasons[Len(result[1].score[1].reasons)] = PartialFaceReason

\* C3: with blur variance >= 25, no face found and an image too small for the
\* fallback (not both height > 200 and width > 200), the call returns ok=false
\* with the no-face message, no score and no explain, and no region
\* derivation, scoring or overlay has been done.
C3_NoFaceFails ==
    (NotFound /\ img.lap_var >= 25 /\ ~(img.h > 200 /\ img.w > 200)) =>
        /\ pc = "FAIL_NO_FACE"
        /\ result = Some([ok |-> FALSE, message |-> NoFaceMessage,
                          quality |-> compute_quality(img),
                          score |-> None, explain |-> None])
        /\ face_box = None
        /\ rois = None
        /\ gray_rois = None
        /\ risk = None
        /\ score = None

C3_Witness ==
    /\ pc = "FAIL_NO_FACE"
    /\ NotFound
    /\ img.h = 200
    /\ img.w = 300
    /\ result[1].message = NoFaceMessage

\* C4: analyze_image never ends by raising, under either backend.
C4_NeverRaises == pc # "RAISED" /\ exc = ""

\* C5: in a returned AnalysisResult, score and explain are both present when
\* ok is true and both absent when ok is false.
C5_ScoreExplainIffOk ==
    result # None =>
        /\ (result[1].score # None) <=> result[1].ok
        /\ (result[1].explain # None) <=> result[1].ok

C5_Witness ==
    /\ pc = "DONE"
    /\ result[1].ok
    /\ result[1].score # None
    /\ result[1].explain # None

\* C6: the QualityResult computed at QUALITY_CHECK is kept unchanged by the
\* later steps and is the one every returned AnalysisResult carries.
C6_QualityCarried ==
    /\ pc # "QUALITY_CHECK" => quality = Some(compute_quality(img))
    /\ result # None => result[1].quality = compute_quality(img)

C6_Witness ==
    /\ pc = "FAIL_NO_FACE"
    /\ result[1].quality = [brightness_mean |-> 54, blur_laplacian_var |-> 44,
                            notes |-> <<TooDarkNote, BlurryNote>>]

(***************************************************************************)
(* Properties of derive_rois (specification SpecRoi).                      *)
(***************************************************************************)
PositiveArea(b) == b[1] < b[3] /\ b[2] < b[4]

\* C7: every box derive_rois returns (face, eyes, lips, skin) has x1 < x2 and
\* y1 < y2, for every image size and every face box.
C7_NoZeroArea ==
    rois # None =>
        /\ PositiveArea(rois[1].face)
        /\ PositiveArea(rois[1].eyes)
        /\ PositiveArea(rois[1].lips)
        /\ PositiveArea(rois[1].skin)

WithinImage(b, w, h) ==
    /\ b[1] \in 0..(w - 1)
    /\ b[3] \in 0..(w - 1)
    /\ b[2] \in 0..(h - 1)
    /\ b[4] \in 0..(h - 1)

\* C19: every box derive_rois returns lies within the image: x1 and x2 are in
\* 0..w-1, y1 and y2 in 0..h-1.
C19_BoxesWithinImage ==
    rois # None =>
        /\ WithinImage(rois[1].face, img.w, img.h)
        /\ WithinImage(rois[1].eyes, img.w, img.h)
        /\ WithinImage(rois[1].lips, img.w, img.h)
        /\ WithinImage(rois[1].skin, img.w, img.h)

\* a face box that reaches beyond the image on every side, cut to the image
C19_Witness ==
    /\ rois # None
    /\ face_box[1] < 0
    /\ face_box[2] < 0
    /\ face_box[3] > img.w - 1
    /\ face_box[4] > img.h - 1
    /\ rois[1].face = <<0, 0, img.w - 1, img.h - 1>>

\* the BoundingBox invariant: 0 <= x1 < x2 <= w-1 and 0 <= y1 < y2 <= h-1
BoundingBox(b, w, h) ==
    /\ 0 <= b[1] /\ b[1] < b[3] /\ b[3] <= w - 1
    /\ 0 <= b[2] /\ b[2] < b[4] /\ b[4] <= h - 1

\* C26: for a face box that satisfies the BoundingBox invariant of the image,
\* a box one pixel wide or high and the fallback box included, each of the
\* four boxes derive_rois returns has x1 < x2 and y1 < y2 and lies in the
\* image, so that no crop handed to risk_from_rois is empty.
C26_InBoundsFaceBox ==
    (rois # None /\ BoundingBox(face_box, img.w, img.h)) =>
        /\ BoundingBox(rois[1].face, img.w, img.h)
        /\ BoundingBox(rois[1].eyes, img.w, img.h)
        /\ BoundingBox(rois[1].lips, img.w, img.h)
        /\ BoundingBox(rois[1].skin, img.w, img.h)
        /\ rois[1].face = face_box

\* the one-pixel face box in the last column and row of a 100 x 100 image
C26_Witness ==
    /\ rois # None
    /\ img = [h |-> 100, w |-> 100]
    /\ face_box = <<98, 98, 99, 99>>
    /\ rois[1].eyes = <<98, 98, 99, 99>>

(***************************************************************************)
(* Properties of risk_from_rois (specification SpecRisk).                  *)
(***************************************************************************)
InUnit(v) == ~IsNaN(v) /\ 0 <= v /\ v <= 10000

\* C8: risk_from_rois returns exactly the keys eyes, lips and skin, each with
\* a value in [0,1], for any three pixel arrays.
C8_RiskInUnit ==
    risk # None =>
        /\ DOMAIN risk[1] = {"eyes", "lips", "skin"}
        /\ \A k \in DOMAIN risk[1] : InUnit(risk[1][k])

(***************************************************************************)
(* Properties of wellness_score (specification SpecScore).                 *)
(***************************************************************************)
\* C9: for risk components in [0,1], agg stays in [0,1] and the score is an
\* integer in [0,100].
C9_ScoreRange ==
    score # None =>
        /\ score[1].raised = ""
        /\ 40 * risk[1].eyes + 35 * risk[1].lips + 25 * risk[1].skin \in 0..1000000
        /\ score[1].score \in 0..100

C9_Witness ==
    /\ score # None
    /\ risk[1] = [eyes |-> 10000, lips |-> 10000, skin |-> 10000]
    /\ score[1].score = 0

\* C10: the category is Low iff score < 45, Medium iff 45 <= score < 70 and
\* Good iff score >= 70; no other category is produced.
C10_CategoryBands ==
    score # None =>
        LET s == score[1].score
            c == score[1].category
        IN /\ c \in {"Low", "Medium", "Good"}
           /\ (c = "Low") <=> (s < 45)
           /\ (c = "Medium") <=> (45 <= s /\ s < 70)
           /\ (c = "Good") <=> (s >= 70)

C10_Witness ==
    /\ score # None
    /\ score[1].score = 45
    /\ score[1].category = "Medium"

\* C11: the confidence is High iff score < 40 or score > 80 and Medium
\* otherwise (40 and 80 give Medium); Low is never produced.
C11_ConfidenceBands ==
    score # None =>
        LET s == score[1].score
            c == score[1].confidence
        IN /\ c \in {"Medium", "High"}
           /\ (c = "High") <=> (s < 40 \/ s > 80)
           /\ (c = "Medium") <=> (40 <= s /\ s <= 80)

C11_Witness ==
    /\ score # None
    /\ score[1].score = 80
    /\ score[1].confidence = "Medium"

\* position of sentence x in the sequence rs, 0 if absent
IndexOf(rs, x) ==
    IF \E i \in DOMAIN rs : rs[i] = x THEN CHOOSE i \in DOMAIN rs : rs[i] = x ELSE 0

Present(rs, x) == IndexOf(rs, x) # 0

\* C12 as stated: when both are present the eye sentence comes before the lip
\* sentence, and the skin sentence comes after both.
C12_EyesBeforeLips ==
    score # None =>
        LET rs == score[1].reasons
        IN /\ (Present(rs, EyesReason) /\ Present(rs, LipsReason)) =>
                  IndexOf(rs, EyesReason) < IndexOf(rs, LipsReason)
           /\ (Present(rs, SkinReason) /\ Present(rs, EyesReason)) =>
                  IndexOf(rs, EyesReason) < IndexOf(rs, SkinReason)
           /\ (Present(rs, SkinReason) /\ Present(rs, LipsReason)) =>
                  IndexOf(rs, LipsReason) < IndexOf(rs, SkinReason)

\* C12 amended: the order is lips, eyes, skin, fallback-if-empty: when both
\* are present the lip sentence comes before the eye sentence, the skin
\* sentence comes after both, and the fallback sentence only stands alone.
C12_LipsBeforeEyes ==
    score # None =>
        LET rs == score[1].reasons
        IN /\ (Present(rs, EyesReason) /\ Present(rs, LipsReason)) =>
                  IndexOf(rs, LipsReason) < IndexOf(rs, EyesReason)
           /\ (Present(rs, SkinReason) /\ Present(rs, EyesReason)) =>
                  IndexOf(rs, EyesReason) < IndexOf(rs, SkinReason)
           /\ (Present(rs, SkinReason) /\ Present(rs, LipsReason)) =>
                  IndexOf(rs, LipsReason) < IndexOf(rs, SkinReason)
           /\ Present(rs, BalancedReason) => rs = <<BalancedReason>>

C12_Witness ==
    /\ score # None
    /\ score[1].reasons = <<LipsReason, EyesReason, SkinReason>>

(***************************************************************************)
(* More properties of analyze_image (specification Spec).                  *)
(***************************************************************************)
\* C13: in an ok=true result the partial-face caveat is present iff the
\* FaceLocator answered not-found and the fallback box was used; then it is
\* the last reason, after the Aggregator's reasons; with a detected box the
\* reasons are the Aggregator's alone.
C13_CaveatIffFallback ==
    (result # None /\ result[1].ok) =>
        LET rs == result[1].score[1].reasons
            agg == wellness_score(risk[1], fp_side).reasons
        IN /\ Present(rs, PartialFaceReason) <=> NotFound
           /\ NotFound <=> (partial_face /\ face_box = fallback_box(img.h, img.w))
           /\ NotFound => rs = agg \o <<PartialFaceReason>>
           /\ ~NotFound => rs = agg
           /\ ~Present(agg, PartialFaceReason)

C13_Witness ==
    /\ pc = "DONE"
    /\ NotFound
    /\ result[1].score[1].reasons = <<LipsReason, EyesReason, SkinReason, PartialFaceReason>>

\* the steps a call may take according to the state order
ClaimedSteps ==
    {<<"QUALITY_CHECK", "FACE_LOCATE">>, <<"QUALITY_CHECK", "FAIL_BLUR">>,
     <<"FACE_LOCATE", "REGION_DERIVE">>, <<"FACE_LOCATE", "FAIL_NO_FACE">>,
     <<"REGION_DERIVE", "RISK_SCORE">>, <<"RISK_SCORE", "AGGREGATE">>,
     <<"AGGREGATE", "DONE">>}

\* C21: a call is a single pass QUALITY_CHECK, FACE_LOCATE, REGION_DERIVE,
\* RISK_SCORE, AGGREGATE, DONE in that order, left only for FAIL_BLUR from
\* QUALITY_CHECK and for FAIL_NO_FACE from FACE_LOCATE; it ends in DONE,
\* FAIL_BLUR or FAIL_NO_FACE; the FaceLocator is asked at most once and never
\* on a call that ends in FAIL_BLUR; no state is entered twice.
C21_SinglePass ==
    [][/\ <<pc, pc'>> \in ClaimedSteps
       /\ located # None => located' = located
       /\ pc' = "FAIL_BLUR" => located' = None]_vars

\* C23: when the fallback is used on an image of width w and height h, the
\* face box is (floor(0.25 w), floor(0.15 h), floor(0.75 w), floor(0.85 h));
\* the regions are derived from it and it is the face box the regions report;
\* on a 300 x 300 image it is (75, 45, 225, 255).
C23_FallbackBox ==
    partial_face =>
        LET fb == <<(25 * img.w) \div 100, (15 * img.h) \div 100,
                    (75 * img.w) \div 100, (85 * img.h) \div 100>>
        IN /\ face_box = fb
           /\ rois # None => /\ rois[1] = derive_rois(img.h, img.w, fb)
                             /\ rois[1].face = fb
           /\ result # None => result[1].explain[1].overlay_bgr.boxes[1] = fb
           /\ (img.w = 300 /\ img.h = 300) => face_box = <<75, 45, 225, 255>>

\* the fallback used on a 300 x 300 image, the call done
C23_Witness ==
    /\ pc = "DONE"
    /\ partial_face
    /\ img.w = 300
    /\ img.h = 300
    /\ rois[1].face = <<75, 45, 225, 255>>

\* C22: a blur variance below 25 ends the call in FAIL_BLUR with the blurry
\* note in the returned quality; from 25 to below 45 the quality carries the
\* blurry note but the call is not ended for blur and goes on to FACE_LOCATE;
\* from 45 on there is no blurry note and the call goes on to FACE_LOCATE.
C22_TwoTierBlur ==
    [][quality' # None =>
          LET b == quality'[1].blur_laplacian_var
              noted == Present(quality'[1].notes, BlurryNote)
              goes_on == /\ pc' # "FAIL_BLUR"
                         /\ pc = "QUALITY_CHECK" => pc' = "FACE_LOCATE"
          IN /\ b = img.lap_var
             /\ b < 25 => /\ pc' = "FAIL_BLUR"
                          /\ ~result'[1].ok
                          /\ result'[1].message = BlurMessage
                          /\ Present(result'[1].quality.notes, BlurryNote)
             /\ (b >= 25 /\ b < 45) => (noted /\ goes_on)
             /\ b >= 45 => (~noted /\ goes_on)]_vars

\* a blur variance of 44: noted as blurry, and the FaceLocator is next
C22_Witness ==
    /\ pc = "FACE_LOCATE"
    /\ img.lap_var = 44
    /\ Present(quality[1].notes, BlurryNote)
    /\ result = None

\* C20: the reasons wellness_score returns hold a region's sentence exactly
\* when that region's risk is above 0.55 (a risk of exactly 0.55 adds nothing),
\* and the balanced sentence exactly when no region's risk is above 0.55; the
\* list is never empty.
C20_ReasonsThreshold ==
    score # None =>
        LET rs == score[1].reasons
            r == risk[1]
        IN /\ Present(rs, EyesReason) <=> r.eyes > 5500
           /\ Present(rs, LipsReason) <=> r.lips > 5500
           /\ Present(rs, SkinReason) <=> r.skin > 5500
           /\ Present(rs, BalancedReason) <=>
                  (r.eyes <= 5500 /\ r.lips <= 5500 /\ r.skin <= 5500)
           /\ rs # <<>>
           /\ \A i \in DOMAIN rs :
                  rs[i] \in {EyesReason, LipsReason, SkinReason, BalancedReason}

\* eyes at exactly 0.55 add nothing while lips just above it add their sentence
C20_Witness ==
    /\ score # None
    /\ risk[1].eyes = 5500
    /\ risk[1].lips = 5501
    /\ risk[1].skin = 5500
    /\ score[1].reasons = <<LipsReason>>

\* C18: no step of analyze_image changes the input image; the overlay of a
\* successful result is drawn by draw_overlay on a copy, an array other than
\* the input, of the input's height and width.
C18_InputUnchanged ==
    [][/\ img' = img
       /\ pc' = "DONE" =>
              LET overlay == result'[1].explain[1].overlay_bgr
              IN /\ overlay.array # "img_bgr"
                 /\ overlay.copy_of = img
                 /\ overlay.h = img.h
                 /\ overlay.w = img.w]_vars

\* a call has returned an overlay with the four rectangles on it
C18_Witness ==
    /\ pc = "DONE"
    /\ result[1].explain # None
    /\ Len(result[1].explain[1].overlay_bgr.boxes) = 4
    /\ img.drawn = <<>>

\* C17: the score is 100 * (1 - (0.4 eyes + 0.35 lips + 0.25 skin)) rounded to
\* the nearest integer.  All risks 0 give score 100, category Good, confidence
\* High and the balanced sentence alone; risks (0.9, 0.1, 0.1) give score 58,
\* category Medium, confidence Medium and the eye sentence alone.
C17_ScoreFormula ==
    score # None =>
        LET r == risk[1]
            v == 1000000 - (40 * r.eyes + 35 * r.lips + 25 * r.skin)
            d == 10000 * score[1].score - v
        IN /\ d \in -5000..5000
           /\ r = [eyes |-> 0, lips |-> 0, skin |-> 0] =>
                  /\ score[1].score = 100
                  /\ score[1].category = "Good"
                  /\ score[1].confidence = "High"
                  /\ score[1].reasons = <<BalancedReason>>
           /\ r = [eyes |-> 9000, lips |-> 1000, skin |-> 1000] =>
                  /\ score[1].score = 58
                  /\ score[1].category = "Medium"
                  /\ score[1].confidence = "Medium"
                  /\ score[1].reasons = <<EyesReason>>

\* risks (0.9, 0.1, 0.1) scored 58
C17_Witness ==
    /\ score # None
    /\ risk[1] = [eyes |-> 9000, lips |-> 1000, skin |-> 1000]
    /\ score[1].score = 58
    /\ score[1].reasons = <<EyesReason>>

\* C16: the notes of a QualityResult hold the too-dark note exactly when the
\* brightness is below 55 and the blurry note exactly when the blur variance
\* is below 45, the too-dark note first when both are there; the acceptable
\* note is there exactly when neither is; the notes are never empty.
C16_NotesPolicy ==
    quality # None =>
        LET notes == quality[1].notes
            dark == quality[1].brightness_mean < 55
            blurry == quality[1].blur_laplacian_var < 45
        IN /\ quality[1].brightness_mean = img.brightness
           /\ quality[1].blur_laplacian_var = img.lap_var
           /\ Present(notes, TooDarkNote) <=> dark
           /\ Present(notes, BlurryNote) <=> blurry
           /\ Present(notes, AcceptableNote) <=> (~dark /\ ~blurry)
           /\ (dark /\ blurry) => notes = <<TooDarkNote, BlurryNote>>
           /\ notes # <<>>
           /\ \A i \in DOMAIN notes :
                  notes[i] \in {TooDarkNote, BlurryNote, AcceptableNote}

\* a brightness of exactly 55 with a blur variance of exactly 45: neither note
C16_Witness ==
    /\ quality # None
    /\ img.brightness = 55
    /\ img.lap_var = 45
    /\ quality[1].notes = <<AcceptableNote>>

\* C15: with the alibaba_imm backend detect_face answers with a box or with
\* not-found, so that a call whose blur is at least 25 goes on past the
\* FaceLocator as it does with the local backend.
C15_RemoteAnswers ==
    (vision_backend = "alibaba_imm" /\ located # None) =>
        /\ located[1].raised = ""
        /\ pc \in {"REGION_DERIVE", "RISK_SCORE", "AGGREGATE", "DONE",
                   "FAIL_NO_FACE"}

(***************************************************************************)
(* Properties of repeated calls (specification SpecCalls).                 *)
(***************************************************************************)
\* the calls that have returned so far, the one at hand included
Completed == IF pc \in Returned THEN calls \cup {CallRecord} ELSE calls

BandRank(c) == IF c = "Low" THEN 0 ELSE IF c = "Medium" THEN 1 ELSE 2

\* C28: raising the eyes, the lips or the skin risk, the other two kept, never
\* raises the score and never moves the category to a higher band.
C28_Monotone ==
    score # None =>
        \A c \in calls :
            (/\ c.risk.eyes <= risk[1].eyes
             /\ c.risk.lips <= risk[1].lips
             /\ c.risk.skin <= risk[1].skin) =>
                /\ score[1].raised = ""
                /\ score[1].score <= c.score.score
                /\ BandRank(score[1].category) <= BandRank(c.score.category)

\* the eyes risk raised from 0.1 to 0.9 with lips and skin at 0.1: the score
\* falls from 90 to 58 and the category from Good to Medium
C28_Witness ==
    /\ score # None
    /\ risk[1] = [eyes |-> 9000, lips |-> 1000, skin |-> 1000]
    /\ calls = {[risk |-> [eyes |-> 1000, lips |-> 1000, skin |-> 1000],
                 score |-> wellness_score([eyes |-> 1000, lips |-> 1000, skin |-> 1000],
                                          fp_side)]}
    /\ score[1].score = 58
    /\ score[1].category = "Medium"
    /\ \E c \in calls : c.score.score = 90 /\ c.score.category = "Good"

(***************************************************************************)
(* Properties of the demo page (specifications SpecDemo, SpecHistory).     *)
(***************************************************************************)
\* C24: a click on "Set baseline from this snapshot", made while a result is
\* displayed, saves that result's score as the baseline of the session, and
\* every later successful analysis shows its change against the baseline as
\* long as the baseline is not cleared.
C24_BaselineSaved ==
    [][/\ page'.clicked = SetBaselineButton =>
              /\ session_state'.baseline # None
              /\ session_state'.baseline[1].score = page.res[1].score[1].score
       /\ (page'.outcome = "result" /\ session_state.baseline # None
               /\ page'.clicked # ClearBaselineSidebar) =>
              page'.delta = Some(page'.res[1].score[1].score
                                     - session_state.baseline[1].score)]_vars

\* C25: the suggestions shown for a category and a scenario include that
\* scenario's tip for that category, for every category and every scenario.
C25_ScenarioTipIncluded ==
    page.outcome = "result" =>
        LET own == CONTEXT_TIPS(page.context[1], page.res[1].score[1].category)
        IN /\ own # <<>>
           /\ \A i \in DOMAIN own : Present(page.tips, own[i])

\* C27: whatever analyses were run and whatever was cleared, the history
\* holds at most 50 records, all of analyses that returned ok=true with a
\* score, and they are the most recent of those in the order they were run:
\* a successful analysis appends its record and, beyond 50, drops the oldest;
\* "Clear session history" empties the history; a failed analysis, as any
\* other run, leaves it as it is.
C27_HistoryRecent ==
    [][LET h == session_state.history
           h2 == session_state'.history
       IN /\ Len(h2) <= 50
          /\ \A i \in 1..(Len(h2) - 1) : h2[i].timestamp < h2[i + 1].timestamp
          /\ IF page'.clicked = ClearHistoryButton THEN h2 = <<>>
             ELSE IF page'.outcome = "result"
             THEN /\ h2 # <<>>
                  /\ page'.res[1].ok
                  /\ h2[Len(h2)].timestamp = clock'
                  /\ h2[Len(h2)].score = page'.res[1].score[1].score
                  /\ h2[Len(h2)].category = page'.res[1].score[1].category
                  /\ h2 = (IF Len(h) < 50 THEN h ELSE Tail(h)) \o <<h2[Len(h2)]>>
             ELSE h2 = h]_vars

\* fifty-one analyses have succeeded: the first record is gone
C27_Witness ==
    /\ Len(session_state.history) = 50
    /\ session_state.history[1].timestamp = 2
    /\ session_state.history[50].timestamp = 51

====
